---------------------------- MODULE Spec2Model ----------------------------
(***************************************************************************)
(* Request/response normalisation layer of the annature-node client:      *)
(* snakeCase / camelCase (top-level key renaming), isoStringifyDates /     *)
(* datifyIsoStrings (timestamp marshalling) and handleDataResponse /       *)
(* handleDatalessResponse (settling one transport call).                   *)
(*                                                                         *)
(* JavaScript strings are sequences of one-character strings.  A plain     *)
(* object is the sequence of its own enumerable properties in insertion    *)
(* order, each a record [k |-> key, v |-> value]; every JavaScript value   *)
(* is a record tagged by its type in field t.                              *)
(***************************************************************************)
EXTENDS Integers, Sequences, FiniteSets, TLC

VARIABLES
  arg,      \* the mapping handed to the first transform function
  ops,      \* names of the transform functions applied so far, in order
  ret,      \* the value returned by the last function (arg before any call)
  calls,    \* resolver calls: shape, lifecycle state, transport promise, result
  heap      \* contents, now, of the objects the transform calls took and made

vars == <<arg, ops, ret, calls, heap>>

---------------------------------------------------------------------------
(* Bounds *)

MaxKeyChars == 3    \* most key characters, in total, in a generated mapping
MaxEntries == 2     \* most properties in a generated mapping
MaxOps == 2         \* most transform functions chained on one mapping

---------------------------------------------------------------------------
(* Characters and strings *)

Lower == {"a"}
Upper == {"A", "B"}
Other == {"_", "$"}
\* characters the generated keys are built from
Alphabet == Lower \cup Upper \cup Other

LowerLetters ==
  <<"a", "b", "c", "d", "e", "f", "g", "h", "i", "j", "k", "l", "m",
    "n", "o", "p", "q", "r", "s", "t", "u", "v", "w", "x", "y", "z">>

UpperLetters ==
  <<"A", "B", "C", "D", "E", "F", "G", "H", "I", "J", "K", "L", "M",
    "N", "O", "P", "Q", "R", "S", "T", "U", "V", "W", "X", "Y", "Z">>

\* the character class [A-Z] of the regular expression in snakeCase
IsAZ(c) == \E i \in 1..26 : UpperLetters[i] = c

\* the character class [a-z] of the regular expression in camelCase
Isaz(c) == \E i \in 1..26 : LowerLetters[i] = c

\* String.prototype.toLowerCase on a one-character string
toLowerCase(c) ==
  IF IsAZ(c) THEN LowerLetters[CHOOSE i \in 1..26 : UpperLetters[i] = c] ELSE c

\* String.prototype.toUpperCase on a one-character string
toUpperCase(c) ==
  IF Isaz(c) THEN UpperLetters[CHOOSE i \in 1..26 : LowerLetters[i] = c] ELSE c

RECURSIVE SeqsUpTo(_, _)
\* all sequences over S of length at most n
SeqsUpTo(S, n) ==
  IF n = 0 THEN {<<>>}
  ELSE LET shorter == SeqsUpTo(S, n - 1)
       IN  shorter \cup {Append(s, c) : s \in shorter, c \in S}

---------------------------------------------------------------------------
(* JavaScript values and plain objects *)

Undefined == [t |-> "undef"]
Null == [t |-> "null"]
Str(s) == [t |-> "str", s |-> s]
Num(n) == [t |-> "num", n |-> n]
Obj(m) == [t |-> "obj", m |-> m]
Arr(a) == [t |-> "arr", a |-> a]

\* truthiness of an argument object: `if (o)`
Truthy(v) ==
  CASE v.t = "undef" -> FALSE
    [] v.t = "null" -> FALSE
    [] v.t = "str" -> v.s # <<>>
    [] v.t = "num" -> v.n # 0
    [] v.t = "bool" -> v.b
    [] OTHER -> TRUE

KeySet(m) == {m[i].k : i \in 1..Len(m)}

HasKey(m, k) == \E i \in 1..Len(m) : m[i].k = k

\* o[key]
Get(m, k) ==
  IF HasKey(m, k) THEN m[CHOOSE i \in 1..Len(m) : m[i].k = k].v ELSE Undefined

\* newObj[key] = v : overwrite in place, or add as the last property
Put(m, k, v) ==
  IF HasKey(m, k)
  THEN [i \in 1..Len(m) |-> IF m[i].k = k THEN [k |-> k, v |-> v] ELSE m[i]]
  ELSE Append(m, [k |-> k, v |-> v])

\* a well-formed plain object has no duplicate keys
DistinctKeys(m) == \A i, j \in 1..Len(m) : m[i].k = m[j].k => i = j

---------------------------------------------------------------------------
(* snakeCase and camelCase *)

RECURSIVE snakeKeyNoLower(_)
\* variant: the matched letter is not lowercased
snakeKeyNoLower(key) ==
  IF key = <<>> THEN <<>>
  ELSE IF IsAZ(Head(key))
       THEN <<"_", Head(key)>> \o snakeKeyNoLower(Tail(key))
       ELSE <<Head(key)>> \o snakeKeyNoLower(Tail(key))

RECURSIVE snakeKeyRuns(_)
\* variant: a run of uppercase letters is one word, "_" only before its first
snakeKeyRuns(key) ==
  IF key = <<>> THEN <<>>
  ELSE LET n == Len(key)
           init == snakeKeyRuns(SubSeq(key, 1, n - 1))
       IN  IF IsAZ(key[n])
           THEN IF n > 1 /\ IsAZ(key[n - 1])
                THEN Append(init, toLowerCase(key[n]))
                ELSE init \o <<"_", toLowerCase(key[n])>>
           ELSE Append(init, key[n])

RECURSIVE snakeKey(_)
\* key.replaceAll(/([A-Z])/g, match => '_' + match.toLowerCase())
snakeKey(key) ==
  IF key = <<>> THEN <<>>
  ELSE IF IsAZ(Head(key))
       THEN <<"_", toLowerCase(Head(key))>> \o snakeKey(Tail(key))
       ELSE <<Head(key)>> \o snakeKey(Tail(key))

RECURSIVE camelKeyNoUpper(_)
\* variant: the underscore is dropped but the letter is not uppercased
camelKeyNoUpper(key) ==
  IF key = <<>> THEN <<>>
  ELSE IF Len(key) >= 2 /\ key[1] = "_" /\ Isaz(key[2])
       THEN <<key[2]>> \o camelKeyNoUpper(SubSeq(key, 3, Len(key)))
       ELSE <<Head(key)>> \o camelKeyNoUpper(Tail(key))

RECURSIVE camelKeyAnyLetter(_)
\* variant: the pattern /(_[a-zA-Z])/g, matching an uppercase letter too
camelKeyAnyLetter(key) ==
  IF key = <<>> THEN <<>>
  ELSE IF Len(key) >= 2 /\ key[1] = "_" /\ (Isaz(key[2]) \/ IsAZ(key[2]))
       THEN <<toUpperCase(key[2])>> \o camelKeyAnyLetter(SubSeq(key, 3, Len(key)))
       ELSE <<Head(key)>> \o camelKeyAnyLetter(Tail(key))

RECURSIVE camelKey(_)
\* key.replaceAll(/(_[a-z])/g, match => match.slice(-1).toUpperCase())
camelKey(key) ==
  IF key = <<>> THEN <<>>
  ELSE IF Len(key) >= 2 /\ key[1] = "_" /\ Isaz(key[2])
       THEN <<toUpperCase(key[2])>> \o camelKey(SubSeq(key, 3, Len(key)))
       ELSE <<Head(key)>> \o camelKey(Tail(key))

RECURSIVE snakeLoopKeepFirst(_, _, _)
\* variant: a key already written to newObj is not overwritten
snakeLoopKeepFirst(m, i, newObj) ==
  IF i > Len(m) THEN newObj
  ELSE IF HasKey(newObj, snakeKey(m[i].k))
       THEN snakeLoopKeepFirst(m, i + 1, newObj)
       ELSE snakeLoopKeepFirst(m, i + 1, Put(newObj, snakeKey(m[i].k), m[i].v))

RECURSIVE snakeLoop(_, _, _)
\* for (const key of Object.keys(o)) newObj[snake(key)] = o[key]
snakeLoop(m, i, newObj) ==
  IF i > Len(m) THEN newObj
  ELSE snakeLoop(m, i + 1, Put(newObj, snakeKey(m[i].k), m[i].v))

\* snakeCase(o): {} for a falsy argument, else the renamed copy
snakeCase(o) == IF Truthy(o) THEN snakeLoop(o.m, 1, <<>>) ELSE <<>>

RECURSIVE camelLoopKeepFirst(_, _, _)
\* variant: a key already written to newObj is not overwritten
camelLoopKeepFirst(m, i, newObj) ==
  IF i > Len(m) THEN newObj
  ELSE IF HasKey(newObj, camelKey(m[i].k))
       THEN camelLoopKeepFirst(m, i + 1, newObj)
       ELSE camelLoopKeepFirst(m, i + 1, Put(newObj, camelKey(m[i].k), m[i].v))

RECURSIVE camelLoop(_, _, _)
\* for (const key of Object.keys(o)) newObj[camel(key)] = o[key]
camelLoop(m, i, newObj) ==
  IF i > Len(m) THEN newObj
  ELSE camelLoop(m, i + 1, Put(newObj, camelKey(m[i].k), m[i].v))

\* camelCase(o): {} for a falsy argument, else the renamed copy
camelCase(o) == IF Truthy(o) THEN camelLoop(o.m, 1, <<>>) ELSE <<>>

---------------------------------------------------------------------------
(* Date objects.  The time value (milliseconds since the epoch) is kept as *)
(* the pair day = floor(tv / msPerDay), ms = tv mod msPerDay.              *)

msPerDay == 86400000
maxDay == 100000000     \* TimeClip: |tv| <= 8.64e15 ms = 1e8 days

InvalidDate == [t |-> "date", valid |-> FALSE, day |-> 0, ms |-> 0]

\* TimeClip on a (day, ms) pair
MakeDate(day, ms) ==
  IF day < -maxDay \/ day > maxDay \/ (day = maxDay /\ ms > 0)
  THEN InvalidDate
  ELSE [t |-> "date", valid |-> TRUE, day |-> day, ms |-> ms]

Digits == <<"0", "1", "2", "3", "4", "5", "6", "7", "8", "9">>

IsDigit(c) == \E i \in 1..10 : Digits[i] = c

DigitValue(c) == (CHOOSE i \in 1..10 : Digits[i] = c) - 1

RECURSIVE PadDigits(_, _)
\* the decimal digits of n >= 0, zero-padded on the left to width w
PadDigits(n, w) ==
  IF w = 0 THEN <<>> ELSE Append(PadDigits(n \div 10, w - 1), Digits[(n % 10) + 1])

RECURSIVE ToInteger(_)
\* the number written by a sequence of decimal digits
ToInteger(s) ==
  IF s = <<>> THEN 0
  ELSE 10 * ToInteger(SubSeq(s, 1, Len(s) - 1)) + DigitValue(s[Len(s)])

AllDigits(s) == \A i \in 1..Len(s) : IsDigit(s[i])

\* the proleptic Gregorian year, month and day of a day number
YearMonthDay(day) ==
  LET z == day + 719468
      era == z \div 146097
      doe == z - era * 146097
      yoe == (doe - doe \div 1460 + doe \div 36524 - doe \div 146096) \div 365
      doy == doe - (365 * yoe + yoe \div 4 - yoe \div 100)
      mp == (5 * doy + 2) \div 153
      d == doy - (153 * mp + 2) \div 5 + 1
      m == IF mp < 10 THEN mp + 3 ELSE mp - 9
      y == yoe + era * 400 + (IF m <= 2 THEN 1 ELSE 0)
  IN  [y |-> y, m |-> m, d |-> d]

\* MakeDay: the day number of a year, month (1..12) and day of month
DayNumber(year, month, dom) ==
  LET y == IF month <= 2 THEN year - 1 ELSE year
      era == y \div 400
      yoe == y - era * 400
      mp == IF month > 2 THEN month - 3 ELSE month + 9
      doy == (153 * mp + 2) \div 5 + dom - 1
      doe == yoe * 365 + yoe \div 4 - yoe \div 100 + doy
  IN  era * 146097 + doe - 719468

\* variant: second precision, the milliseconds written as 000
toISOStringSeconds(d) ==
  LET ymd == YearMonthDay(d.day)
      yearPart ==
        IF ymd.y >= 0 /\ ymd.y <= 9999 THEN PadDigits(ymd.y, 4)
        ELSE IF ymd.y < 0 THEN <<"-">> \o PadDigits(0 - ymd.y, 6)
        ELSE <<"+">> \o PadDigits(ymd.y, 6)
  IN  yearPart \o <<"-">> \o PadDigits(ymd.m, 2) \o <<"-">> \o PadDigits(ymd.d, 2)
        \o <<"T">> \o PadDigits(d.ms \div 3600000, 2)
        \o <<":">> \o PadDigits((d.ms \div 60000) % 60, 2)
        \o <<":">> \o PadDigits((d.ms \div 1000) % 60, 2) \o <<".", "0", "0", "0", "Z">>

\* Date.prototype.toISOString of a valid date:
\* YYYY-MM-DDTHH:mm:ss.sssZ, or +-YYYYYY-... outside the years 0..9999
toISOString(d) ==
  LET ymd == YearMonthDay(d.day)
      yearPart ==
        IF ymd.y >= 0 /\ ymd.y <= 9999 THEN PadDigits(ymd.y, 4)
        ELSE IF ymd.y < 0 THEN <<"-">> \o PadDigits(0 - ymd.y, 6)
        ELSE <<"+">> \o PadDigits(ymd.y, 6)
      hh == d.ms \div 3600000
      mm == (d.ms \div 60000) % 60
      ss == (d.ms \div 1000) % 60
      sss == d.ms % 1000
  IN  yearPart \o <<"-">> \o PadDigits(ymd.m, 2) \o <<"-">> \o PadDigits(ymd.d, 2)
        \o <<"T">> \o PadDigits(hh, 2) \o <<":">> \o PadDigits(mm, 2)
        \o <<":">> \o PadDigits(ss, 2) \o <<".">> \o PadDigits(sss, 3) \o <<"Z">>

\* Date.parse of a string: the full ISO-8601 UTC form toISOString writes is
\* read back field by field; any other text in the modelled inputs is not a
\* date and yields NaN
DateParse(s) ==
  LET signed == Len(s) >= 1 /\ s[1] \in {"+", "-"}
      yl == IF signed THEN 7 ELSE 4          \* length of the year part
      yd == IF signed THEN SubSeq(s, 2, 7) ELSE SubSeq(s, 1, 4)
      shape ==
        /\ Len(s) = yl + 20
        /\ AllDigits(yd)
        /\ s[yl + 1] = "-" /\ AllDigits(SubSeq(s, yl + 2, yl + 3))
        /\ s[yl + 4] = "-" /\ AllDigits(SubSeq(s, yl + 5, yl + 6))
        /\ s[yl + 7] = "T" /\ AllDigits(SubSeq(s, yl + 8, yl + 9))
        /\ s[yl + 10] = ":" /\ AllDigits(SubSeq(s, yl + 11, yl + 12))
        /\ s[yl + 13] = ":" /\ AllDigits(SubSeq(s, yl + 14, yl + 15))
        /\ s[yl + 16] = "." /\ AllDigits(SubSeq(s, yl + 17, yl + 19))
        /\ s[yl + 20] = "Z"
      year == (IF signed /\ s[1] = "-" THEN -1 ELSE 1) * ToInteger(yd)
      month == ToInteger(SubSeq(s, yl + 2, yl + 3))
      dom == ToInteger(SubSeq(s, yl + 5, yl + 6))
      hh == ToInteger(SubSeq(s, yl + 8, yl + 9))
      mm == ToInteger(SubSeq(s, yl + 11, yl + 12))
      ss == ToInteger(SubSeq(s, yl + 14, yl + 15))
      sss == ToInteger(SubSeq(s, yl + 17, yl + 19))
      inRange ==
        /\ ~(signed /\ s[1] = "-" /\ year = 0)
        /\ month >= 1 /\ month <= 12
        /\ dom >= 1 /\ dom <= 31
        /\ hh <= 24 /\ mm <= 59 /\ ss <= 59
        /\ (hh = 24 => mm = 0 /\ ss = 0 /\ sss = 0)
      time == hh * 3600000 + mm * 60000 + ss * 1000 + sss
      day == DayNumber(year, month, dom)
  IN  IF ~shape THEN InvalidDate
      ELSE IF ~inRange THEN InvalidDate
      ELSE MakeDate(day + time \div msPerDay, time % msPerDay)

\* new Date(value), by the type of value
NewDate(v) ==
  CASE v.t = "undef" -> InvalidDate
    [] v.t = "null" -> MakeDate(0, 0)
    [] v.t = "bool" -> MakeDate(0, IF v.b THEN 1 ELSE 0)
    [] v.t = "num" -> MakeDate(v.n \div msPerDay, v.n % msPerDay)
    [] v.t = "str" -> DateParse(v.s)
    [] v.t = "date" -> v
    [] OTHER -> InvalidDate   \* an object, or an array of objects: its
                              \* string form "[object Object]" is no date

\* o[key] instanceof Date
InstanceOfDate(v) == v.t = "date"

RangeError == [t |-> "throw", name |-> "RangeError"]

\* variant: the loop ends at the first Date it converts
isoStringifyLoopFirstOnly(m, i, newObj) ==
  LET dates == {j \in 1..Len(m) : m[j].v.t = "date"}
      first == CHOOSE j \in dates : \A l \in dates : j <= l
  IN  IF dates = {} THEN Obj(newObj)
      ELSE IF m[first].v.valid
           THEN Obj(Put(newObj, m[first].k, Str(toISOString(m[first].v))))
           ELSE RangeError

RECURSIVE isoStringifyLoop(_, _, _)
\* for (const key of Object.keys(o))
\*   if (o[key] instanceof Date) newObj[key] = o[key].toISOString()
\* toISOString throws RangeError on an invalid date, which ends the call
isoStringifyLoop(m, i, newObj) ==
  IF i > Len(m) THEN Obj(newObj)
  ELSE IF InstanceOfDate(m[i].v)
       THEN IF m[i].v.valid
            THEN isoStringifyLoop(m, i + 1,
                                  Put(newObj, m[i].k, Str(toISOString(m[i].v))))
            ELSE RangeError
       ELSE isoStringifyLoop(m, i + 1, newObj)

\* variant: no `if (o)` guard, so Object.keys(undefined) throws TypeError
isoStringifyDatesUnguarded(o) ==
  IF o.t = "obj" THEN isoStringifyLoop(o.m, 1, o.m)
  ELSE [t |-> "throw", name |-> "TypeError"]

\* isoStringifyDates(o): {} for a falsy argument, else the spread copy { ...o }
\* with every top-level Date replaced by its ISO string
isoStringifyDates(o) ==
  IF Truthy(o) THEN isoStringifyLoop(o.m, 1, o.m) ELSE Obj(<<>>)

created == <<"c", "r", "e", "a", "t", "e", "d">>
verified == <<"v", "e", "r", "i", "f", "i", "e", "d">>
sent == <<"s", "e", "n", "t">>
voided == <<"v", "o", "i", "d", "e", "d">>
declined == <<"d", "e", "c", "l", "i", "n", "e", "d">>
completed == <<"c", "o", "m", "p", "l", "e", "t", "e", "d">>
viewed == <<"v", "i", "e", "w", "e", "d">>
failed == <<"f", "a", "i", "l", "e", "d">>

\* the array literal tested with .includes(key) in datifyIsoStrings
DateKeyList ==
  <<created, verified, sent, voided, declined, completed, viewed, failed>>

\* variant: a key matches when an allow-listed name is a prefix of it
IncludesPrefix(list, x) ==
  \E i \in 1..Len(list) :
    Len(list[i]) <= Len(x) /\ SubSeq(x, 1, Len(list[i])) = list[i]

Includes(list, x) == \E i \in 1..Len(list) : list[i] = x

RECURSIVE datifyLoopKeepUnparsed(_, _, _)
\* variant: a value that does not parse is left as received
datifyLoopKeepUnparsed(m, i, newObj) ==
  IF i > Len(m) THEN newObj
  ELSE IF Includes(DateKeyList, m[i].k) /\ NewDate(m[i].v).valid
       THEN datifyLoopKeepUnparsed(m, i + 1, Put(newObj, m[i].k, NewDate(m[i].v)))
       ELSE datifyLoopKeepUnparsed(m, i + 1, newObj)

RECURSIVE datifyLoop(_, _, _)
\* for (const key of Object.keys(o))
\*   if ([...].includes(key)) newObj[key] = new Date(o[key])
datifyLoop(m, i, newObj) ==
  IF i > Len(m) THEN newObj
  ELSE IF Includes(DateKeyList, m[i].k)
       THEN datifyLoop(m, i + 1, Put(newObj, m[i].k, NewDate(m[i].v)))
       ELSE datifyLoop(m, i + 1, newObj)

\* datifyIsoStrings(o): {} for a falsy argument, else the spread copy { ...o }
\* with every allow-listed top-level key rebound to new Date(value)
datifyIsoStrings(o) ==
  IF Truthy(o) THEN datifyLoop(o.m, 1, o.m) ELSE <<>>

---------------------------------------------------------------------------
(* Inputs of the transform functions *)

groupId == <<"g", "r", "o", "u", "p", "I", "d">>
group_id == <<"g", "r", "o", "u", "p", "_", "i", "d">>
createdBefore == created \o <<"B", "e", "f", "o", "r", "e">>

RECURSIVE KeySeqs(_, _)
\* all sequences of n keys over Alphabet with at most budget characters in all
KeySeqs(n, budget) ==
  IF n = 0 THEN {<<>>}
  ELSE UNION {{<<k>> \o rest : rest \in KeySeqs(n - 1, budget - Len(k))} :
                k \in SeqsUpTo(Alphabet, budget)}

\* field names in both identifier forms
NamedKeys == {groupId, group_id, createdBefore}

\* key lists of the casing inputs: short keys over Alphabet, and field names
CaseKeySeqs ==
  {q \in UNION {KeySeqs(n, MaxKeyChars) \cup [1..n -> NamedKeys] :
                  n \in 0..MaxEntries} :
     \A i, j \in 1..Len(q) : q[i] = q[j] => i = j}

\* the i-th property of a generated mapping carries the number i, so that
\* the origin of every output value is observable
CaseMaps ==
  {[i \in 1..Len(ks) |-> [k |-> ks[i], v |-> Num(i)]] : ks \in CaseKeySeqs}

\* 2024-03-11T02:15:30.500Z, 1969-12-31 and +010000-01-01 at two times of day
DateSamples ==
  {MakeDate(d, r) : d \in {19793, -1, 2932897}, r \in {0, 8130500}}

isoSample == toISOString(MakeDate(19793, 8130500))
\* the same text with month 13: in the ISO form, but no date
monthThirteen == [isoSample EXCEPT ![6] = "1", ![7] = "3"]

\* values of the date inputs: absent values, ISO and non-date text, a
\* number, valid and invalid Date objects, and a nested object holding a Date
DateVals ==
  {Undefined, Null, Str(isoSample), Str(<<"x">>), Str(monthThirteen), Num(1),
   InvalidDate,
   Obj(<<[k |-> created, v |-> MakeDate(19793, 0)]>>)} \cup DateSamples

DateKeys == {created, sent, createdBefore}

DateMaps ==
  {m \in UNION {[1..n -> [k : DateKeys, v : DateVals]] : n \in 1..MaxEntries} :
     DistinctKeys(m)}

CaseInputs == {Undefined} \cup {Obj(m) : m \in CaseMaps}

DateInputs == {Undefined} \cup {Obj(m) : m \in DateMaps}

\* a nested object and a nested array, each with a camelCase key, a
\* snake_case key and a Date one level down
nestedObject ==
  Obj(<<[k |-> groupId, v |-> Num(1)], [k |-> group_id, v |-> Num(2)],
        [k |-> created, v |-> MakeDate(19793, 0)]>>)
nestedArray ==
  Arr(<<Obj(<<[k |-> createdBefore, v |-> MakeDate(-1, 0)],
              [k |-> group_id, v |-> Str(isoSample)]>>)>>)

\* inputs for all four functions together: field names of both forms, in and
\* out of the allow-list, bound to scalars, Dates and nested values
MixedKeys == {groupId, group_id, created, createdBefore}

MixedVals ==
  {Num(1), Str(isoSample), MakeDate(19793, 8130500), nestedObject, nestedArray}

MixedMaps ==
  {m \in UNION {[1..n -> [k : MixedKeys, v : MixedVals]] : n \in 0..MaxEntries} :
     DistinctKeys(m)}

MixedInputs == {Undefined, Null} \cup {Obj(m) : m \in MixedMaps}

---------------------------------------------------------------------------
(* The transform functions as operations on one mapping.  ops is the       *)
(* composition evaluated so far and ret its outcome: a mapping, or the     *)
(* exception that ended the evaluation.  heap holds what each object       *)
(* contains now: first the argument object, then the object each call      *)
(* returned.                                                               *)

\* variant: `newObj = o`, the result is the argument object itself
AliasArgument(h, m) == IF h = <<>> THEN <<m>> ELSE [h EXCEPT ![Len(h)] = m]

\* `const newObj = {}` / `newObj = { ...o }`: the properties m are written to
\* an object created by the call, which is the one returned
NewObject(h, m) == Append(h, m)

\* the heap after a call with outcome r (nothing is returned on a throw)
Returned(h, r) == IF r.t = "obj" THEN NewObject(h, r.m) ELSE h

InitHeap == heap = IF arg.t = "obj" THEN <<arg.m>> ELSE <<>>

InitCase ==
  /\ arg \in CaseInputs
  /\ ops = <<>>
  /\ ret = arg
  /\ calls = <<>>
  /\ InitHeap

InitDate ==
  /\ arg \in DateInputs
  /\ ops = <<>>
  /\ ret = arg
  /\ calls = <<>>
  /\ InitHeap

InitTransform ==
  /\ arg \in MixedInputs
  /\ ops = <<>>
  /\ ret = arg
  /\ calls = <<>>
  /\ InitHeap

CallSnakeCase ==
  /\ Len(ops) < MaxOps
  /\ ret' = IF ret.t = "throw" THEN ret ELSE Obj(snakeCase(ret))
  /\ ops' = Append(ops, "snakeCase")
  /\ heap' = Returned(heap, ret')
  /\ UNCHANGED <<arg, calls>>

CallCamelCase ==
  /\ Len(ops) < MaxOps
  /\ ret' = IF ret.t = "throw" THEN ret ELSE Obj(camelCase(ret))
  /\ ops' = Append(ops, "camelCase")
  /\ heap' = Returned(heap, ret')
  /\ UNCHANGED <<arg, calls>>

CallIsoStringifyDates ==
  /\ Len(ops) < MaxOps
  /\ ret' = IF ret.t = "throw" THEN ret ELSE isoStringifyDates(ret)
  /\ ops' = Append(ops, "isoStringifyDates")
  /\ heap' = Returned(heap, ret')
  /\ UNCHANGED <<arg, calls>>

CallDatifyIsoStrings ==
  /\ Len(ops) < MaxOps
  /\ ret' = IF ret.t = "throw" THEN ret ELSE Obj(datifyIsoStrings(ret))
  /\ ops' = Append(ops, "datifyIsoStrings")
  /\ heap' = Returned(heap, ret')
  /\ UNCHANGED <<arg, calls>>

NextCase == CallSnakeCase \/ CallCamelCase

NextDate == CallIsoStringifyDates \/ CallDatifyIsoStrings

NextTransform == NextCase \/ NextDate

\* the casing functions on mappings with generated keys
SpecCase == InitCase /\ [][NextCase]_vars

\* the date functions on mappings with generated values
SpecDate == InitDate /\ [][NextDate]_vars

\* the four functions, in any composition, on mappings with nested values
SpecTransform == InitTransform /\ [][NextTransform]_vars

---------------------------------------------------------------------------
(* handleDataResponse and handleDatalessResponse.  A call is one invocation *)
(* of a handler on the promise of one transport request.  tx is the state  *)
(* of that promise and tv the value it settled with: a response            *)
(* [t |-> "resp"] when fulfilled, the failure (any value) when rejected.   *)

MaxCalls == 2       \* most resolver calls issued in one behaviour

message == <<"m", "e", "s", "s", "a", "g", "e">>
notFound == <<"N", "o", "t", " ", "f", "o", "u", "n", "d">>
objectObject ==
  <<"[", "o", "b", "j", "e", "c", "t", " ", "O", "b", "j", "e", "c", "t", "]">>

Resp(status, data) == [t |-> "resp", status |-> status, data |-> data]

\* the identity of an object: the call it was created for and the place that
\* created it (each place creates at most one object per call)
Ref(c, site) == [call |-> c, site |-> site]

\* an Error-like object: identity, constructor name, message, and the
\* response the transport attached to it (undefined when there was none)
ErrorObject(ref, name, msg, response) ==
  [t |-> "error", ref |-> ref, name |-> name, message |-> msg,
   response |-> response]

RECURSIVE Decimal(_)
\* Number.prototype.toString of a non-negative integer
Decimal(n) ==
  IF n < 10 THEN <<Digits[n + 1]>>
  ELSE Append(Decimal(n \div 10), Digits[(n % 10) + 1])

\* ToString(value), as applied by Error(value) to its argument
StringOf(v) ==
  CASE v.t = "str" -> v.s
    [] v.t = "num" -> Decimal(v.n)
    [] OTHER -> objectObject

\* error?.response?.data?.message
ResponseDataMessage(error) ==
  LET response == IF error.t = "error" THEN error.response ELSE Undefined
      data == IF response.t = "resp" THEN response.data ELSE Undefined
  IN  IF data.t = "obj" THEN Get(data.m, message) ELSE Undefined

\* variant: the message is tested for presence, `!== undefined`, not for truth
RethrownIfDefined(error, ref) ==
  IF ResponseDataMessage(error) # Undefined
  THEN ErrorObject(ref, "Error", StringOf(ResponseDataMessage(error)), Undefined)
  ELSE error

\* variant: the failure is always re-thrown as it is
RethrownAsIs(error, ref) == error

\* variant: the failure is always wrapped in a new Error
RethrownWrapped(error, ref) ==
  ErrorObject(ref, "Error", StringOf(ResponseDataMessage(error)), Undefined)

\* the value thrown by the catch clause of both handlers:
\* error?.response?.data?.message ? Error(error?.response?.data?.message) : error
\* ref is the identity given to the Error object if one is built
Rethrown(error, ref) ==
  IF Truthy(ResponseDataMessage(error))
  THEN ErrorObject(ref, "Error", StringOf(ResponseDataMessage(error)), Undefined)
  ELSE error

\* variant: an array body is returned as it is, its elements not converted
DatifiedUnmapped(data) ==
  IF data.t = "arr" THEN data ELSE Obj(datifyIsoStrings(data))

\* Array.isArray(res.data) ? res.data.map(v => datifyIsoStrings(v))
\*                         : datifyIsoStrings(res.data)
Datified(data) ==
  IF data.t = "arr"
  THEN Arr([i \in 1..Len(data.a) |-> Obj(datifyIsoStrings(data.a[i]))])
  ELSE Obj(datifyIsoStrings(data))

\* variant: the catch clause re-throws the failure without looking at it
handleDataResponseNoWrap(tx, tv, ref) ==
  IF tx = "fulfilled"
  THEN [state |-> "SUCCESS", result |-> Datified(tv.data)]
  ELSE [state |-> "FAILURE", result |-> tv]

\* variant: res.data is returned as received
handleDataResponseRaw(tx, tv, ref) ==
  IF tx = "fulfilled"
  THEN [state |-> "SUCCESS", result |-> tv.data]
  ELSE [state |-> "FAILURE", result |-> Rethrown(tv, ref)]

\* handleDataResponse after `await apiCall` has settled
handleDataResponse(tx, tv, ref) ==
  IF tx = "fulfilled"
  THEN [state |-> "SUCCESS", result |-> Datified(tv.data)]
  ELSE [state |-> "FAILURE", result |-> Rethrown(tv, ref)]

\* variant: `return (await apiCall).data`
handleDatalessReturnsBody(tx, tv, ref) ==
  IF tx = "fulfilled"
  THEN [state |-> "SUCCESS", result |-> tv.data]
  ELSE [state |-> "FAILURE", result |-> Rethrown(tv, ref)]

\* variant: a rejection is swallowed and the call resolves
handleDatalessSwallow(tx, tv, ref) == [state |-> "SUCCESS", result |-> Undefined]

\* handleDatalessResponse after `await apiCall` has settled
handleDatalessResponse(tx, tv, ref) ==
  IF tx = "fulfilled"
  THEN [state |-> "SUCCESS", result |-> Undefined]
  ELSE [state |-> "FAILURE", result |-> Rethrown(tv, ref)]

expiration == <<"e", "x", "p", "i", "r", "a", "t", "i", "o", "n">>

\* response bodies: none, one object, or a sequence of objects
Bodies ==
  {Undefined,
   Obj(<<[k |-> expiration, v |-> Str(isoSample)]>>),
   Obj(<<[k |-> created, v |-> Str(isoSample)], [k |-> group_id, v |-> Num(1)]>>),
   Obj(<<[k |-> sent, v |-> Null]>>),
   Arr(<<>>),
   Arr(<<Obj(<<[k |-> created, v |-> Str(isoSample)]>>),
         Obj(<<[k |-> created, v |-> Str(toISOString(MakeDate(-1, 0)))]>>)>>)}

\* bodies of failed requests: none, text, and objects with and without a
\* message property (a string, the empty string, null, numbers)
ErrorBodies ==
  {Undefined, Null, Str(notFound),
   Obj(<<>>),
   Obj(<<[k |-> message, v |-> Str(notFound)], [k |-> created, v |-> Num(1)]>>),
   Obj(<<[k |-> message, v |-> Str(<<>>)]>>),
   Obj(<<[k |-> message, v |-> Null]>>),
   Obj(<<[k |-> message, v |-> Num(404)]>>),
   Obj(<<[k |-> message, v |-> Num(0)]>>)}

\* failures a transport promise rejects with: values that are not objects,
\* an error without a response (connection refused), errors with a response
Failures(ref) ==
  {Undefined, Null, Str(notFound),
   ErrorObject(ref, "AxiosError", <<"E", "C", "O", "N", "N">>, Undefined)}
  \cup {ErrorObject(ref, "AxiosError", <<"4", "0", "4">>, Resp(404, b)) :
          b \in ErrorBodies}

InitResolver ==
  /\ arg = Undefined
  /\ ops = <<>>
  /\ ret = Undefined
  /\ calls = <<>>
  /\ heap = <<>>

\* an endpoint wrapper issues one transport request and hands its promise to
\* a handler, which runs up to `await apiCall`
Invoke(shape) ==
  /\ Len(calls) < MaxCalls
  /\ calls' = Append(calls,
       [shape |-> shape, state |-> "PENDING", tx |-> "pending",
        tv |-> Undefined, result |-> Undefined, issued |-> 1, awaits |-> 1])
  /\ UNCHANGED <<arg, ops, ret, heap>>

\* the transport fulfils the promise of call c with a response
TransportFulfil(c, body) ==
  /\ calls[c].tx = "pending"
  /\ calls' = [calls EXCEPT ![c].tx = "fulfilled", ![c].tv = Resp(200, body)]
  /\ UNCHANGED <<arg, ops, ret, heap>>

\* the transport rejects the promise of call c with a failure
TransportReject(c, f) ==
  /\ calls[c].tx = "pending"
  /\ calls' = [calls EXCEPT ![c].tx = "rejected", ![c].tv = f]
  /\ UNCHANGED <<arg, ops, ret, heap>>

\* variant: the handlers keep the last outcome in one module-level slot, so a
\* resuming handler also settles every other call whose request has ended
ResumeShared(c) ==
  /\ calls[c].state = "PENDING"
  /\ calls[c].tx # "pending"
  /\ LET ref == Ref(c, "Error")
         out == IF calls[c].shape = "data"
                THEN handleDataResponse(calls[c].tx, calls[c].tv, ref)
                ELSE handleDatalessResponse(calls[c].tx, calls[c].tv, ref)
     IN  calls' = [d \in 1..Len(calls) |->
                     IF calls[d].state = "PENDING" /\ calls[d].tx # "pending"
                     THEN [calls[d] EXCEPT !.state = out.state,
                                           !.result = out.result]
                     ELSE calls[d]]
  /\ UNCHANGED <<arg, ops, ret, heap>>

\* variant: a handler with a timeout, which may give up on a request that has
\* not ended
ResumeOrTimeout(c) ==
  /\ calls[c].state = "PENDING"
  /\ calls' = IF calls[c].tx = "pending"
              THEN [calls EXCEPT ![c].state = "FAILURE",
                                 ![c].result = Str(<<"t", "i", "m", "e", "o", "u", "t">>)]
              ELSE LET out == IF calls[c].shape = "data"
                              THEN handleDataResponse(calls[c].tx, calls[c].tv,
                                                      Ref(c, "Error"))
                              ELSE handleDatalessResponse(calls[c].tx, calls[c].tv,
                                                          Ref(c, "Error"))
                   IN  [calls EXCEPT ![c].state = out.state,
                                     ![c].result = out.result]
  /\ UNCHANGED <<arg, ops, ret, heap>>

\* the handler of call c resumes after its await and settles its own promise
Resume(c) ==
  /\ calls[c].state = "PENDING"
  /\ calls[c].tx # "pending"
  /\ LET ref == Ref(c, "Error")
         out == IF calls[c].shape = "data"
                THEN handleDataResponse(calls[c].tx, calls[c].tv, ref)
                ELSE handleDatalessResponse(calls[c].tx, calls[c].tv, ref)
     IN  calls' = [calls EXCEPT ![c].state = out.state, ![c].result = out.result]
  /\ UNCHANGED <<arg, ops, ret, heap>>

NextResolver ==
  \/ \E shape \in {"data", "dataless"} : Invoke(shape)
  \/ \E c \in 1..Len(calls) : \E body \in Bodies : TransportFulfil(c, body)
  \/ \E c \in 1..Len(calls) : \E f \in Failures(Ref(c, "transport")) :
       TransportReject(c, f)
  \/ \E c \in 1..Len(calls) : Resume(c)

SpecResolver == InitResolver /\ [][NextResolver]_vars

\* the continuation of `await apiCall` is a job the event loop runs once the
\* promise has settled: a handler that can resume does resume.  Nothing
\* obliges the transport to settle a request.
ResumeFairness == WF_vars(\E c \in 1..Len(calls) : Resume(c))

\* the outcomes of a request that make a handler take each of its paths:
\* a body, a failure with a message or without
LiveBodies == {Obj(<<[k |-> created, v |-> Str(isoSample)]>>)}

LiveFailures(ref) ==
  {Str(notFound),
   ErrorObject(ref, "AxiosError", <<"4", "0", "4">>,
               Resp(404, Obj(<<[k |-> message, v |-> Str(notFound)]>>)))}

NextResolverLive ==
  \/ \E shape \in {"data", "dataless"} : Invoke(shape)
  \/ \E c \in 1..Len(calls) : \E body \in LiveBodies : TransportFulfil(c, body)
  \/ \E c \in 1..Len(calls) : \E f \in LiveFailures(Ref(c, "transport")) :
       TransportReject(c, f)
  \/ \E c \in 1..Len(calls) : Resume(c)

SpecResolverLive == InitResolver /\ [][NextResolverLive]_vars /\ ResumeFairness

---------------------------------------------------------------------------
(* Vocabulary of the properties, stated independently of the functions     *)

LetterPairs ==
  {<<"a", "A">>, <<"b", "B">>, <<"c", "C">>, <<"d", "D">>, <<"e", "E">>,
   <<"f", "F">>, <<"g", "G">>, <<"h", "H">>, <<"i", "I">>, <<"j", "J">>,
   <<"k", "K">>, <<"l", "L">>, <<"m", "M">>, <<"n", "N">>, <<"o", "O">>,
   <<"p", "P">>, <<"q", "Q">>, <<"r", "R">>, <<"s", "S">>, <<"t", "T">>,
   <<"u", "U">>, <<"v", "V">>, <<"w", "W">>, <<"x", "X">>, <<"y", "Y">>,
   <<"z", "Z">>}

AsciiLower == {p[1] : p \in LetterPairs}
AsciiUpper == {p[2] : p \in LetterPairs}
LowerOf(c) == (CHOOSE p \in LetterPairs : p[2] = c)[1]
UpperOf(c) == (CHOOSE p \in LetterPairs : p[1] = c)[2]

\* the fixed allow-list of timestamp field names
AllowList ==
  {created, verified, sent, voided, declined, completed, viewed, failed}

\* 2024-03-11T02:15:30.500Z as a Date and as text
sampleInstant == [t |-> "date", valid |-> TRUE, day |-> 19793, ms |-> 8130500]
sampleText ==
  <<"2", "0", "2", "4", "-", "0", "3", "-", "1", "1", "T", "0", "2", ":",
    "1", "5", ":", "3", "0", ".", "5", "0", "0", "Z">>

Only(f) == ops = <<f>> /\ arg.t = "obj"
Chain(f, g) == ops = <<f, g>> /\ arg.t = "obj"

\* w is k with each uppercase ASCII letter replaced by "_" and its lowercase
\* form, every other character in place
SnakeRule(k, w) ==
  LET before(i) == Cardinality({j \in 1..(i - 1) : k[j] \in AsciiUpper})
  IN  /\ Len(w) = Len(k) + before(Len(k) + 1)
      /\ \A i \in 1..Len(k) :
           IF k[i] \in AsciiUpper
           THEN w[i + before(i)] = "_" /\ w[i + before(i) + 1] = LowerOf(k[i])
           ELSE w[i + before(i)] = k[i]

\* k is w with each "_" + lowercase ASCII letter pair (left to right, not
\* overlapping) replaced by the letter uppercased, every other character in
\* place
CamelRule(w, k) ==
  LET starts == {i \in 1..(Len(w) - 1) : w[i] = "_" /\ w[i + 1] \in AsciiLower}
      kept == {i \in 1..Len(w) : (i - 1) \notin starts}
      before(i) == Cardinality({j \in starts : j < i})
  IN  /\ Len(k) = Len(w) - Cardinality(starts)
      /\ \A i \in kept :
           k[i - before(i)] = IF i \in starts THEN UpperOf(w[i + 1]) ELSE w[i]

\* the failure carries a property `message` at response.data
HasMessageField(f) ==
  /\ f.t = "error"
  /\ f.response.t = "resp"
  /\ f.response.data.t = "obj"
  /\ \E i \in 1..Len(f.response.data.m) : f.response.data.m[i].k = message

MessageField(f) ==
  f.response.data.m[CHOOSE i \in 1..Len(f.response.data.m) :
                      f.response.data.m[i].k = message].v

\* identities of the objects the transport has produced
TransportRefs == {calls[c].tv.ref : c \in {d \in 1..Len(calls) : calls[d].tv.t = "error"}}

Failed(c) == calls[c].tx = "rejected" /\ calls[c].state # "PENDING"

---------------------------------------------------------------------------
(* Properties *)

\* C1 as stated: every failed call whose failure carries a message string at
\* response.data.message rejects with a newly built Error whose message is
\* exactly that string, for every value of the string (the empty one too).
C1_AsStated ==
  \A c \in 1..Len(calls) :
    (Failed(c) /\ HasMessageField(calls[c].tv)
               /\ MessageField(calls[c].tv).t = "str")
    => /\ calls[c].state = "FAILURE"
       /\ calls[c].result.t = "error"
       /\ calls[c].result.message = MessageField(calls[c].tv).s
       /\ calls[c].result.ref \notin TransportRefs

\* C1 amended: every failed call (data-returning or dataless) whose failure
\* carries a non-empty message string at response.data.message rejects with a
\* newly built Error whose message is exactly that string.
C1_DomainError ==
  \A c \in 1..Len(calls) :
    (Failed(c) /\ HasMessageField(calls[c].tv)
               /\ MessageField(calls[c].tv).t = "str"
               /\ MessageField(calls[c].tv).s # <<>>)
    => /\ calls[c].state = "FAILURE"
       /\ calls[c].result.t = "error"
       /\ calls[c].result.name = "Error"
       /\ calls[c].result.message = MessageField(calls[c].tv).s
       /\ calls[c].result.response = Undefined
       /\ calls[c].result.ref \notin TransportRefs

\* both handlers have rejected with an Error built from the body's message
C1_Witness ==
  \E c, d \in 1..Len(calls) :
    /\ calls[c].shape = "data" /\ calls[d].shape = "dataless"
    /\ \A e \in {c, d} :
         /\ Failed(e) /\ HasMessageField(calls[e].tv)
         /\ MessageField(calls[e].tv) = Str(notFound)
         /\ calls[e].result.t = "error"
         /\ calls[e].result.message = notFound
         /\ calls[e].result.ref # calls[e].tv.ref

\* C2: every failed call whose failure has no message field at
\* response.data.message (no response, no body, a body without message, or a
\* failure that is not an object) rejects with the very failure it received:
\* same identity, type and message.
C2_Passthrough ==
  \A c \in 1..Len(calls) :
    (Failed(c) /\ ~HasMessageField(calls[c].tv))
    => /\ calls[c].state = "FAILURE"
       /\ calls[c].result = calls[c].tv

\* a connection failure without response and a failure that is not an object
\* have both been re-raised as they were
C2_Witness ==
  \E c, d \in 1..Len(calls) :
    /\ Failed(c) /\ calls[c].tv.t = "error" /\ calls[c].tv.response = Undefined
    /\ calls[c].result.t = "error" /\ calls[c].result.ref = calls[c].tv.ref
    /\ Failed(d) /\ calls[d].tv = Null /\ calls[d].result = Null

C3_StateInv ==
  \A c \in 1..Len(calls) :
    /\ calls[c].state \in {"PENDING", "SUCCESS", "FAILURE"}
    /\ calls[c].tx = "pending" => calls[c].state = "PENDING"
    /\ calls[c].state = "SUCCESS" <=> (calls[c].tx = "fulfilled" /\ calls[c].state # "PENDING")
    /\ calls[c].state = "FAILURE" <=> (calls[c].tx = "rejected" /\ calls[c].state # "PENDING")
    /\ calls[c].issued = 1
    /\ calls[c].awaits = 1

C3_Step ==
  /\ Len(calls') >= Len(calls)
  /\ \A c \in 1..Len(calls) :
       /\ calls[c].state # "PENDING" => calls'[c] = calls[c]
       /\ calls[c].tx # "pending" =>
            calls'[c].tx = calls[c].tx /\ calls'[c].tv = calls[c].tv
  /\ \A c \in (Len(calls) + 1)..Len(calls') : calls'[c].state = "PENDING"

\* C3: a call starts PENDING and moves at most once, to SUCCESS or FAILURE;
\* a terminal call never changes state or result; a terminal call is SUCCESS
\* exactly when its transport promise was fulfilled and FAILURE exactly when it
\* was rejected; the transport request is issued and awaited once, never again.
C3_Lifecycle == []C3_StateInv /\ [][C3_Step]_vars

\* one call has ended in SUCCESS and another in FAILURE
C3_Witness ==
  \E c, d \in 1..Len(calls) :
    /\ calls[c].state = "SUCCESS" /\ calls[c].tx = "fulfilled"
    /\ calls[d].state = "FAILURE" /\ calls[d].tx = "rejected"

\* C4 as stated: datifyIsoStrings leaves an allow-listed key whose value is
\* null or undefined as it is.
C4_AbsentKept ==
  Only("datifyIsoStrings") =>
    \A i \in 1..Len(arg.m) :
      (arg.m[i].k \in AllowList /\ arg.m[i].v.t \in {"null", "undef"})
      => Get(ret.m, arg.m[i].k) = arg.m[i].v

\* C5: datifyIsoStrings keeps the key set and binds every key outside the
\* allow-list to the identical value, also a string shaped like an ISO date.
C5_OthersKept ==
  Only("datifyIsoStrings") =>
    /\ KeySet(ret.m) = KeySet(arg.m)
    /\ \A i \in 1..Len(arg.m) :
         arg.m[i].k \notin AllowList => Get(ret.m, arg.m[i].k) = arg.m[i].v

\* createdBefore kept its ISO-shaped string while created became a Date
C5_Witness ==
  /\ Only("datifyIsoStrings")
  /\ Get(arg.m, createdBefore) = Str(sampleText)
  /\ Get(ret.m, createdBefore) = Str(sampleText)
  /\ Get(arg.m, created) = Str(sampleText)
  /\ Get(ret.m, created) = sampleInstant

\* a camelCase key: ASCII letters only, no two uppercase letters in a row
IsCamelKey(k) ==
  /\ \A i \in 1..Len(k) : k[i] \in AsciiLower \cup AsciiUpper
  /\ \A i \in 1..(Len(k) - 1) : ~(k[i] \in AsciiUpper /\ k[i + 1] \in AsciiUpper)

\* C6: for every mapping whose keys are camelCase ASCII-letter keys,
\* camelCase(snakeCase(m)) has exactly the keys of m, each with its value.
C6_RoundTrip ==
  (Chain("snakeCase", "camelCase") /\ \A i \in 1..Len(arg.m) : IsCamelKey(arg.m[i].k))
  => /\ KeySet(ret.m) = KeySet(arg.m)
     /\ \A i \in 1..Len(arg.m) : Get(ret.m, arg.m[i].k) = arg.m[i].v

\* groupId and a second camelCase key came back from the round trip
C6_Witness ==
  /\ Chain("snakeCase", "camelCase")
  /\ Len(arg.m) = 2
  /\ arg.m[1].k = groupId
  /\ IsCamelKey(arg.m[2].k) /\ \E i \in 1..Len(arg.m[2].k) : arg.m[2].k[i] \in AsciiUpper
  /\ ret.m = arg.m

\* a wire-form key: lowercase ASCII letters and single underscores, each
\* underscore followed by a lowercase letter
IsWireKey(w) ==
  /\ \A i \in 1..Len(w) : w[i] \in AsciiLower \cup {"_"}
  /\ \A i \in 1..Len(w) : w[i] = "_" => (i < Len(w) /\ w[i + 1] \in AsciiLower)

\* C7: for every wire-form key w, snakeCase(camelCase({w: v})) = {w: v}.
C7_WireRoundTrip ==
  (Chain("camelCase", "snakeCase") /\ Len(arg.m) = 1 /\ IsWireKey(arg.m[1].k))
  => ret.m = arg.m

\* group_id went to groupId and came back
C7_Witness ==
  /\ Chain("camelCase", "snakeCase")
  /\ arg.m = <<[k |-> group_id, v |-> Num(1)]>>
  /\ ret.m = arg.m

\* C8 as stated: every input key k has its snake form among the output keys,
\* bound to the value k had in the input.
C8_AsStated ==
  Only("snakeCase") =>
    /\ \A i \in 1..Len(arg.m) : \E j \in 1..Len(ret.m) :
         SnakeRule(arg.m[i].k, ret.m[j].k) /\ ret.m[j].v = arg.m[i].v
    /\ \A j \in 1..Len(ret.m) : \E i \in 1..Len(arg.m) :
         SnakeRule(arg.m[i].k, ret.m[j].k)

\* C8 amended: the output keys are exactly the snake forms of the input keys
\* (each uppercase ASCII letter replaced by "_" and its lowercase form, other
\* characters unchanged); each output key is bound to the untouched input
\* value of the last-enumerated input key that renames to it.
C8_SnakeRule ==
  Only("snakeCase") =>
    /\ \A i \in 1..Len(arg.m) : \E j \in 1..Len(ret.m) :
         /\ SnakeRule(arg.m[i].k, ret.m[j].k)
         /\ LET last == CHOOSE n \in 1..Len(arg.m) :
                          /\ SnakeRule(arg.m[n].k, ret.m[j].k)
                          /\ \A n2 \in (n + 1)..Len(arg.m) :
                               ~SnakeRule(arg.m[n2].k, ret.m[j].k)
            IN  ret.m[j].v = arg.m[last].v
    /\ \A j \in 1..Len(ret.m) : \E i \in 1..Len(arg.m) :
         SnakeRule(arg.m[i].k, ret.m[j].k)

\* groupId was renamed to group_id with its value
C8_Witness ==
  /\ Only("snakeCase")
  /\ Len(arg.m) = 2
  /\ arg.m[1].k = groupId
  /\ ret.m[1] = [k |-> group_id, v |-> arg.m[1].v]
  /\ Len(ret.m) = 2

\* C9 as stated: every input key has its camel form among the output keys,
\* bound to the value the key had in the input.
C9_AsStated ==
  Only("camelCase") =>
    /\ \A i \in 1..Len(arg.m) : \E j \in 1..Len(ret.m) :
         CamelRule(arg.m[i].k, ret.m[j].k) /\ ret.m[j].v = arg.m[i].v
    /\ \A j \in 1..Len(ret.m) : \E i \in 1..Len(arg.m) :
         CamelRule(arg.m[i].k, ret.m[j].k)

\* C9 amended: the output keys are exactly the camel forms of the input keys
\* (each "_" + lowercase ASCII letter pair, scanning left to right without
\* overlap, replaced by the letter uppercased, other characters unchanged);
\* each output key is bound to the untouched input value of the
\* last-enumerated input key that renames to it.
C9_CamelRule ==
  Only("camelCase") =>
    /\ \A i \in 1..Len(arg.m) : \E j \in 1..Len(ret.m) :
         /\ CamelRule(arg.m[i].k, ret.m[j].k)
         /\ LET last == CHOOSE n \in 1..Len(arg.m) :
                          /\ CamelRule(arg.m[n].k, ret.m[j].k)
                          /\ \A n2 \in (n + 1)..Len(arg.m) :
                               ~CamelRule(arg.m[n2].k, ret.m[j].k)
            IN  ret.m[j].v = arg.m[last].v
    /\ \A j \in 1..Len(ret.m) : \E i \in 1..Len(arg.m) :
         CamelRule(arg.m[i].k, ret.m[j].k)

\* group_id was renamed to groupId with its value
C9_Witness ==
  /\ Only("camelCase")
  /\ Len(arg.m) = 2
  /\ arg.m[1].k = group_id
  /\ ret.m[1] = [k |-> groupId, v |-> arg.m[1].v]
  /\ Len(ret.m) = 2

\* text in the form YYYY-MM-DDTHH:mm:ss.sssZ (or with a signed 6-digit year)
IsoShaped(v) ==
  /\ v.t = "str"
  /\ Len(v.s) \in {24, 27}
  /\ v.s[Len(v.s)] = "Z"
  /\ v.s[Len(v.s) - 13] = "T"

RoundTripOutcome ==
  /\ ret.t = "obj"
  /\ \A i \in 1..Len(arg.m) :
       arg.m[i].v.t = "date" =>
         IF arg.m[i].k \in AllowList
         THEN Get(ret.m, arg.m[i].k) = arg.m[i].v
         ELSE /\ IsoShaped(Get(ret.m, arg.m[i].k))
              /\ arg.m[i].v = sampleInstant =>
                   Get(ret.m, arg.m[i].k) = Str(sampleText)

\* C10 as stated: for every mapping m, datifyIsoStrings(isoStringifyDates(m))
\* holds the same timestamp at every allow-listed key that held one and the
\* ISO string at every other key that held one.
C10_AsStated ==
  Chain("isoStringifyDates", "datifyIsoStrings") => RoundTripOutcome

\* C10 amended: the same, for every mapping m whose top-level timestamp values
\* are all valid.
C10_RoundTrip ==
  (Chain("isoStringifyDates", "datifyIsoStrings")
     /\ \A i \in 1..Len(arg.m) : arg.m[i].v.t = "date" => arg.m[i].v.valid)
  => RoundTripOutcome

\* created got its timestamp back, createdBefore came back as text
C10_Witness ==
  /\ Chain("isoStringifyDates", "datifyIsoStrings")
  /\ Get(arg.m, created) = sampleInstant
  /\ Get(arg.m, createdBefore) = sampleInstant
  /\ Get(ret.m, created) = sampleInstant
  /\ Get(ret.m, createdBefore) = Str(sampleText)

---------------------------------------------------------------------------
(* C11: isoStringifyDates converts by value type *)

AllTimestampsValid ==
  \A i \in 1..Len(arg.m) : arg.m[i].v.t = "date" => arg.m[i].v.valid

ByValueTypeOutcome ==
  /\ ret.t = "obj"
  /\ KeySet(ret.m) = KeySet(arg.m)
  /\ Len(ret.m) = Len(arg.m)
  /\ \A i \in 1..Len(arg.m) :
       IF arg.m[i].v.t = "date"
       THEN /\ IsoShaped(Get(ret.m, arg.m[i].k))
            /\ Get(ret.m, arg.m[i].k) = Str(toISOString(arg.m[i].v))
            /\ arg.m[i].v = sampleInstant
                 => Get(ret.m, arg.m[i].k) = Str(sampleText)
       ELSE Get(ret.m, arg.m[i].k) = arg.m[i].v

\* C11 as stated: for every mapping, isoStringifyDates binds every top-level
\* key holding a timestamp to its ISO-8601 UTC millisecond 'Z' string, whatever
\* the key's name, binds every other key to the identical value, and returns
\* the same key set.
C11_AsStated == Only("isoStringifyDates") => ByValueTypeOutcome

\* C11 amended: the same, for every mapping whose top-level timestamp values
\* are all valid.
C11_ByValueType ==
  (Only("isoStringifyDates") /\ AllTimestampsValid) => ByValueTypeOutcome

\* a timestamp under a name outside the allow-list and one under a name in it
\* were both converted
C11_Witness ==
  /\ Only("isoStringifyDates")
  /\ Len(arg.m) = 2
  /\ arg.m[1] = [k |-> createdBefore, v |-> sampleInstant]
  /\ arg.m[2] = [k |-> sent, v |-> MakeDate(-1, 0)]
  /\ ret.t = "obj"
  /\ ret.m[1] = [k |-> createdBefore, v |-> Str(sampleText)]
  /\ ret.m[2].v.t = "str"

---------------------------------------------------------------------------
(* C12: nested values *)

IsNested(v) == v.t \in {"obj", "arr"}

\* the key under which function f returns the value it took under key k
KeyAfter(f, k) ==
  CASE f = "snakeCase" -> snakeKey(k)
    [] f = "camelCase" -> camelKey(k)
    [] OTHER -> k

\* every nested value of the argument is, identical, the value of its key in
\* the result (of the last key, where two keys are renamed to one)
NestedKept(f) ==
  /\ ret.t = "obj"
  /\ \A i \in 1..Len(arg.m) :
       (/\ IsNested(arg.m[i].v)
        /\ \A j \in (i + 1)..Len(arg.m) :
             KeyAfter(f, arg.m[j].k) # KeyAfter(f, arg.m[i].k))
       => Get(ret.m, KeyAfter(f, arg.m[i].k)) = arg.m[i].v
  /\ \A i \in 1..Len(ret.m) :
       IsNested(ret.m[i].v) => \E j \in 1..Len(arg.m) : arg.m[j].v = ret.m[i].v

\* C12: snakeCase, camelCase, isoStringifyDates and datifyIsoStrings are
\* top-level only: every nested object or array value of the argument is in
\* the result the same, unmodified value, with no key renamed and no value
\* converted inside it.
C12_TopLevelOnly ==
  \A f \in {"snakeCase", "camelCase", "isoStringifyDates", "datifyIsoStrings"} :
    Only(f) => NestedKept(f)

---------------------------------------------------------------------------
(* C13: purity *)

\* the argument object holds, now, what it held before the first call
C13_ArgumentKept == arg.t = "obj" => (heap # <<>> /\ heap[1] = arg.m)

\* a call changes no object that existed before it, and the mapping it
\* returns is an object that did not
C13_Step ==
  [][ops' # ops =>
       /\ Len(heap') >= Len(heap)
       /\ SubSeq(heap', 1, Len(heap)) = heap
       /\ ret'.t = "obj" =>
            (Len(heap') = Len(heap) + 1 /\ heap'[Len(heap')] = ret'.m)]_vars

---------------------------------------------------------------------------
(* C14: absent argument *)

Absent(v) == v.t \in {"undef", "null"}

\* C14: snakeCase, camelCase, isoStringifyDates and datifyIsoStrings, each
\* called with an absent (undefined or null) argument, return an empty mapping
\* and raise no error.
C14_AbsentInput ==
  \A f \in {"snakeCase", "camelCase", "isoStringifyDates", "datifyIsoStrings"} :
    (ops = <<f>> /\ Absent(arg)) => (ret = Obj(<<>>) /\ heap = <<(<<>>)>>)

\* isoStringifyDates(undefined) returned {}
C14_Witness ==
  /\ ops = <<"isoStringifyDates">>
  /\ arg = Undefined
  /\ ret = Obj(<<>>)

---------------------------------------------------------------------------
(* C15, C16, C17: what a successful call resolves to *)

Settled(c) == calls[c].state # "PENDING"

Succeeded(c, shape) ==
  calls[c].shape = shape /\ calls[c].tx = "fulfilled" /\ Settled(c)

\* 1969-12-31T00:00:00.000Z
dayBeforeEpoch == [t |-> "date", valid |-> TRUE, day |-> -1, ms |-> 0]

\* C15: a data-returning call whose request succeeds with a body that is a
\* sequence of n objects resolves to a sequence of exactly n records, the i-th
\* being datifyIsoStrings of the i-th body element, in the original order.
C15_SequenceBody ==
  \A c \in 1..Len(calls) :
    (Succeeded(c, "data") /\ calls[c].tv.data.t = "arr")
    => /\ calls[c].state = "SUCCESS"
       /\ calls[c].result.t = "arr"
       /\ Len(calls[c].result.a) = Len(calls[c].tv.data.a)
       /\ \A i \in 1..Len(calls[c].tv.data.a) :
            calls[c].result.a[i] = Obj(datifyIsoStrings(calls[c].tv.data.a[i]))

\* a body of two objects resolved to two records holding the two parsed
\* instants in the order of the body
C15_Witness ==
  \E c \in 1..Len(calls) :
    /\ Succeeded(c, "data")
    /\ calls[c].tv.data.t = "arr"
    /\ Len(calls[c].tv.data.a) = 2
    /\ calls[c].result.t = "arr"
    /\ calls[c].result.a =
         <<Obj(<<[k |-> created, v |-> sampleInstant]>>),
           Obj(<<[k |-> created, v |-> dayBeforeEpoch]>>)>>

\* C16: a data-returning call whose request succeeds with a single-object body
\* resolves to datifyIsoStrings(body), applied once; one whose request
\* succeeds with an absent body resolves, to an empty or undefined result.
C16_SingleBody ==
  \A c \in 1..Len(calls) :
    /\ (Succeeded(c, "data") /\ calls[c].tv.data.t = "obj")
       => /\ calls[c].state = "SUCCESS"
          /\ calls[c].result = Obj(datifyIsoStrings(calls[c].tv.data))
    /\ (Succeeded(c, "data") /\ Absent(calls[c].tv.data))
       => /\ calls[c].state = "SUCCESS"
          /\ calls[c].result \in {Undefined, Obj(<<>>)}

\* one call resolved an object body to a record with the parsed instant
\* and the other property as received; another resolved an absent body
C16_Witness ==
  \E c, d \in 1..Len(calls) :
    /\ Succeeded(c, "data")
    /\ calls[c].tv.data =
         Obj(<<[k |-> created, v |-> Str(sampleText)],
               [k |-> group_id, v |-> Num(1)]>>)
    /\ calls[c].result =
         Obj(<<[k |-> created, v |-> sampleInstant],
               [k |-> group_id, v |-> Num(1)]>>)
    /\ Succeeded(d, "data")
    /\ calls[d].tv.data = Undefined
    /\ calls[d].state = "SUCCESS"
    /\ calls[d].result = Obj(<<>>)

\* C17: whenever the request of a dataless call succeeds,
\* handleDatalessResponse resolves with no value, whatever the response body
\* is (absent, an object or a sequence).
C17_NoValue ==
  \A c \in 1..Len(calls) :
    Succeeded(c, "dataless")
    => (calls[c].state = "SUCCESS" /\ calls[c].result = Undefined)

\* two dataless calls, one answered with an object and one with a sequence of
\* two objects, both resolved with no value
C17_Witness ==
  \E c, d \in 1..Len(calls) :
    /\ Succeeded(c, "dataless") /\ Succeeded(d, "dataless")
    /\ calls[c].tv.data.t = "obj"
    /\ calls[d].tv.data.t = "arr" /\ Len(calls[d].tv.data.a) = 2
    /\ calls[c].result = Undefined /\ calls[d].result = Undefined

---------------------------------------------------------------------------
(* C20: calls in flight together *)

\* a value with the identity of an Error object reduced to the place that
\* created it
Anon(v) == IF v.t = "error" THEN [v EXCEPT !.ref = v.ref.site] ELSE v

\* two settled calls of one handler whose requests ended alike ended alike
C20_OwnOutcomeOnly ==
  \A c, d \in 1..Len(calls) :
    (/\ Settled(c) /\ Settled(d)
     /\ calls[c].shape = calls[d].shape
     /\ calls[c].tx = calls[d].tx
     /\ Anon(calls[c].tv) = Anon(calls[d].tv))
    => /\ calls[c].state = calls[d].state
       /\ Anon(calls[c].result) = Anon(calls[d].result)

\* a step changes the record of at most one call, changes the state and
\* result of a call only when that call's own request has ended, and never
\* changes them once the call is settled
C20_Step ==
  [][\A c \in 1..Len(calls) :
       /\ calls'[c] # calls[c]
            => \A d \in 1..Len(calls) : d # c => calls'[d] = calls[d]
       /\ (calls'[c].state # calls[c].state \/ calls'[c].result # calls[c].result)
            => (calls[c].state = "PENDING" /\ calls[c].tx # "pending")]_vars

\* C20: for every interleaving of the settlements of the calls in flight,
\* each call's terminal state and result depend only on the outcome of its
\* own request; a call that settles never changes the state or result of
\* another call.
C20_Independence == []C20_OwnOutcomeOnly /\ C20_Step

\* two calls in flight together: the one issued second has settled, with a
\* failure, while the first, whose request has succeeded, is still pending
\* and untouched
C20_Witness ==
  /\ Len(calls) = 2
  /\ calls[1].shape = "data" /\ calls[2].shape = "dataless"
  /\ calls[1].tx = "fulfilled" /\ calls[1].tv.data.t = "arr"
  /\ calls[1].state = "PENDING" /\ calls[1].result = Undefined
  /\ calls[2].state = "FAILURE" /\ calls[2].result.t = "error"
  /\ calls[2].result.ref = Ref(2, "Error")

---------------------------------------------------------------------------
(* C18: text that is no date *)

\* strings that are not a valid date: free text, and month 13 in the ISO form
NoDateTexts ==
  {<<"x">>,
   <<"2", "0", "2", "4", "-", "1", "3", "-", "1", "1", "T", "0", "2", ":",
     "1", "5", ":", "3", "0", ".", "5", "0", "0", "Z">>}

\* C18: for every allow-listed key whose value is a string that is not a valid
\* date, datifyIsoStrings raises no error and binds the key to an invalid
\* timestamp; the other keys of the mapping are still returned.
C18_Unparsable ==
  (Only("datifyIsoStrings")
     /\ \E i \in 1..Len(arg.m) :
          arg.m[i].k \in AllowList /\ arg.m[i].v.t = "str"
                                   /\ arg.m[i].v.s \in NoDateTexts)
  => /\ ret.t = "obj"
     /\ KeySet(ret.m) = KeySet(arg.m)
     /\ \A i \in 1..Len(arg.m) :
          /\ (arg.m[i].k \in AllowList /\ arg.m[i].v.t = "str"
                                       /\ arg.m[i].v.s \in NoDateTexts)
             => Get(ret.m, arg.m[i].k) = InvalidDate
          /\ arg.m[i].k \notin AllowList
             => Get(ret.m, arg.m[i].k) = arg.m[i].v

\* created held month 13 and came back an invalid timestamp, next to
\* createdBefore, returned as received
C18_Witness ==
  /\ Only("datifyIsoStrings")
  /\ Len(arg.m) = 2
  /\ arg.m[1].k = created
  /\ arg.m[1].v.t = "str" /\ arg.m[1].v.s \in NoDateTexts /\ Len(arg.m[1].v.s) = 24
  /\ arg.m[2] = [k |-> createdBefore, v |-> Str(<<"x">>)]
  /\ ret.t = "obj"
  /\ ret.m[1] = [k |-> created, v |-> InvalidDate]
  /\ ret.m[2] = arg.m[2]

---------------------------------------------------------------------------
(* Buffers and their base64 text.  A Buffer is the sequence of its bytes.  *)
(* The endpoint wrappers groups.create, organisations.update and           *)
(* templates.use build their request payload from params: ops is the       *)
(* sequence of wrappers applied, each to the payload of the one before,    *)
(* and ret the last payload.                                               *)

MaxBytes == 3       \* most bytes in a generated Buffer

\* byte values the generated Buffers are built from: 0x00, 0x41, 0x42, 0xFF
SampleBytes == {0, 65, 66, 255}

Buf(b) == [t |-> "buf", b |-> b]

\* Buffer.isBuffer(x)
IsBuffer(v) == v.t = "buf"

\* the base64 alphabet of RFC 4648, by 6-bit value
Base64Chars == UpperLetters \o LowerLetters \o Digits \o <<"+", "/">>

RECURSIVE base64(_)
\* buffer.toString('base64'): three bytes to four characters, the last group
\* padded with "="
base64(b) ==
  LET ch(n) == Base64Chars[n + 1]
  IN  IF Len(b) = 0 THEN <<>>
      ELSE IF Len(b) = 1
      THEN <<ch(b[1] \div 4), ch((b[1] % 4) * 16), "=", "=">>
      ELSE IF Len(b) = 2
      THEN <<ch(b[1] \div 4), ch((b[1] % 4) * 16 + b[2] \div 16),
             ch((b[2] % 16) * 4), "=">>
      ELSE <<ch(b[1] \div 4), ch((b[1] % 4) * 16 + b[2] \div 16),
             ch((b[2] % 16) * 4 + b[3] \div 64), ch(b[3] % 64)>>
           \o base64(SubSeq(b, 4, Len(b)))

\* variant: a string is taken for content too and encoded (its characters
\* as bytes), so that text already encoded is encoded again
encodeAlways(v) ==
  LET code(c) ==
        IF c = "=" THEN 61
        ELSE LET i == CHOOSE j \in 1..64 : Base64Chars[j] = c
             IN  IF i <= 26 THEN 64 + i
                 ELSE IF i <= 52 THEN 70 + i
                 ELSE IF i <= 62 THEN i - 5
                 ELSE IF i = 63 THEN 43 ELSE 47
  IN  IF IsBuffer(v) THEN Str(base64(v.b))
      ELSE IF v.t = "str" THEN Str(base64([i \in 1..Len(v.s) |-> code(v.s[i])]))
      ELSE v

\* Buffer.isBuffer(x) ? x.toString('base64') : x
encode(v) == IF IsBuffer(v) THEN Str(base64(v.b)) ELSE v

logo == <<"l", "o", "g", "o">>
documents == <<"d", "o", "c", "u", "m", "e", "n", "t", "s">>
base == <<"b", "a", "s", "e">>
name == <<"n", "a", "m", "e">>
id == <<"i", "d">>
params == <<"p", "a", "r", "a", "m", "s">>
accountId == <<"a", "c", "c", "o", "u", "n", "t", "I", "d">>

Buffers == {Buf(b) : b \in SeqsUpTo(SampleBytes, MaxBytes)}

\* strings given where a Buffer may be: base64 text ("QUI=", "QQ==") or none
Texts == {Str(<<"Q", "U", "I", "=">>), Str(<<"Q", "Q", "=", "=">>), Str(<<>>)}

\* params of groups.create / organisations.update: logo is optional
LogoParams ==
  {Obj(<<[k |-> name, v |-> Str(<<"a">>)]>>)} \cup
  {Obj(<<[k |-> name, v |-> Str(<<"a">>)], [k |-> logo, v |-> x]>>) :
     x \in Buffers \cup Texts \cup {Undefined}}

\* a document of TemplateUseParams
Doc(x) == Obj(<<[k |-> name, v |-> Str(<<"a">>)], [k |-> base, v |-> x]>>)

\* params of templates.use: documents is optional
UseParams ==
  {Obj(<<[k |-> accountId, v |-> Str(<<"a">>)]>>)} \cup
  {Obj(<<[k |-> accountId, v |-> Str(<<"a">>)],
         [k |-> documents, v |-> Arr(d)]>>) :
     d \in {<<>>} \cup {<<Doc(x)>> : x \in Buffers \cup Texts}
             \cup {<<Doc(Str(<<"Q", "U", "I", "=">>)), Doc(x)>> : x \in Buffers}}

InitEncode ==
  /\ arg \in LogoParams \cup UseParams
  /\ ops = <<>>
  /\ ret = arg
  /\ calls = <<>>
  /\ heap = <<>>

\* snakeCase(isoStringifyDates(o)) on the object with properties m
WirePayload(m) ==
  LET dated == isoStringifyDates(Obj(m))
  IN  IF dated.t = "throw" THEN dated ELSE Obj(snakeCase(dated))

\* { ...params, logo: Buffer.isBuffer(params.logo)
\*                      ? params.logo.toString('base64') : params.logo }
WithLogo(m) == Put(m, logo, encode(Get(m, logo)))

\* groups.create(params): the payload posted to 'groups'
GroupsCreate ==
  /\ Len(ops) < MaxOps
  /\ ret.t = "obj"
  /\ ret' = WirePayload(WithLogo(ret.m))
  /\ ops' = Append(ops, "groups.create")
  /\ UNCHANGED <<arg, calls, heap>>

\* organisations.update(params): the payload put to 'organisations'
OrganisationsUpdate ==
  /\ Len(ops) < MaxOps
  /\ ret.t = "obj"
  /\ ret' = WirePayload(WithLogo(ret.m))
  /\ ops' = Append(ops, "organisations.update")
  /\ UNCHANGED <<arg, calls, heap>>

\* the id argument of templates.use
templateId == Str(<<"t">>)

RECURSIVE Spread(_, _, _)
\* { ...o } written into the object literal newObj, property by property
Spread(m, i, newObj) ==
  IF i > Len(m) THEN newObj
  ELSE Spread(m, i + 1, Put(newObj, m[i].k, m[i].v))

\* params.documents
\*   ? params.documents.map(v => ({ ...v, base: Buffer.isBuffer(v.base)
\*                                   ? v.base.toString('base64') : v.base }))
\*   : params.documents
WithBases(docs) ==
  IF Truthy(docs)
  THEN Arr([i \in 1..Len(docs.a) |->
              Obj(Put(docs.a[i].m, base, encode(Get(docs.a[i].m, base))))])
  ELSE docs

\* templates.use(id, params): the body posted to `templates/${id}/use`,
\* { params: snakeCase(isoStringifyDates({ id, ...params, documents: ... })) }
TemplatesUse ==
  /\ Len(ops) < MaxOps
  /\ ret.t = "obj"
  /\ LET literal == Put(Spread(ret.m, 1, <<[k |-> id, v |-> templateId]>>),
                        documents, WithBases(Get(ret.m, documents)))
     IN  ret' = Obj(<<[k |-> params, v |-> WirePayload(literal)]>>)
  /\ ops' = Append(ops, "templates.use")
  /\ UNCHANGED <<arg, calls, heap>>

\* envelopes.create(params): the body posted to 'envelopes',
\* snakeCase(isoStringifyDates(params))
EnvelopesCreate ==
  /\ Len(ops) < MaxOps
  /\ ret.t = "obj"
  /\ ret' = WirePayload(ret.m)
  /\ ops' = Append(ops, "envelopes.create")
  /\ UNCHANGED <<arg, calls, heap>>

\* fields.retrieveAttachments(id, params): the body posted to
\* `fields/${id}/attachments`, { params: snakeCase(isoStringifyDates(params)) }
FieldsRetrieveAttachments ==
  /\ Len(ops) < MaxOps
  /\ ret.t = "obj"
  /\ ret' = Obj(<<[k |-> params, v |-> WirePayload(ret.m)]>>)
  /\ ops' = Append(ops, "fields.retrieveAttachments")
  /\ UNCHANGED <<arg, calls, heap>>

NextEncode ==
  \/ GroupsCreate
  \/ OrganisationsUpdate
  \/ TemplatesUse
  \/ EnvelopesCreate
  \/ FieldsRetrieveAttachments

\* the payloads of the wrappers that take a Buffer or a string
SpecEncode == InitEncode /\ [][NextEncode]_vars

---------------------------------------------------------------------------
(* C19: Buffer or string *)

\* the 6-bit value of a base64 character
SixBits(c) == (CHOOSE j \in 1..64 : Base64Chars[j] = c) - 1

\* text is the standard base64 form of bytes, read as a decoder reads it:
\* four characters for every three bytes, "=" where the last group has no
\* byte, unused bits zero
Base64Rule(bytes, text) ==
  LET n == Len(bytes)
      groups == (n + 2) \div 3
      six(i) == SixBits(text[i])
  IN  /\ Len(text) = 4 * groups
      /\ \A g \in 0..(groups - 1) :
           LET c == 4 * g
               b == 3 * g
           IN  /\ text[c + 1] # "=" /\ text[c + 2] # "="
               /\ bytes[b + 1] = six(c + 1) * 4 + six(c + 2) \div 16
               /\ IF b + 2 <= n
                  THEN /\ text[c + 3] # "="
                       /\ bytes[b + 2] = (six(c + 2) % 16) * 16 + six(c + 3) \div 4
                  ELSE text[c + 3] = "=" /\ six(c + 2) % 16 = 0
               /\ IF b + 3 <= n
                  THEN /\ text[c + 4] # "="
                       /\ bytes[b + 3] = (six(c + 3) % 4) * 64 + six(c + 4)
                  ELSE /\ text[c + 4] = "="
                       /\ b + 2 <= n => six(c + 3) % 4 = 0

\* w is what the designated field holding v is sent as
SentAs(v, w) ==
  /\ IF v.t = "buf" THEN w.t = "str" /\ Base64Rule(v.b, w.s) ELSE w = v
  /\ v = Buf(<<65, 66>>) => w = Str(<<"Q", "U", "I", "=">>)
  /\ encode(w) = w

LogoSites == {"groups.create", "organisations.update"}

\* C19: the encode rule applied to a designated field (the logo of
\* groups.create and organisations.update, the base of each document of
\* templates.use) maps a Buffer to its standard base64 text and a string to
\* the identical string, and is idempotent: a value sent through a wrapper
\* again is sent as before, never encoded twice.
C19_Encode ==
  /\ (arg.t = "obj" /\ ops # <<>> /\ \A i \in 1..Len(ops) : ops[i] \in LogoSites)
     => /\ ret.t = "obj"
        /\ SentAs(Get(arg.m, logo), Get(ret.m, logo))
  /\ (ops = <<"templates.use">> /\ HasKey(arg.m, documents))
     => LET posted == Get(Get(ret.m, params).m, documents)
            given == Get(arg.m, documents)
        IN  /\ posted.t = "arr"
            /\ Len(posted.a) = Len(given.a)
            /\ \A i \in 1..Len(given.a) :
                 SentAs(Get(given.a[i].m, base), Get(posted.a[i].m, base))

\* the logo bytes 0x41 0x42 were sent as "QUI=" by groups.create, and that
\* payload given to organisations.update was sent with "QUI=" again
C19_Witness ==
  /\ ops = <<"groups.create", "organisations.update">>
  /\ Get(arg.m, logo) = Buf(<<65, 66>>)
  /\ Get(ret.m, logo) = Str(<<"Q", "U", "I", "=">>)

---------------------------------------------------------------------------
(* C21: the names under which a resolved record holds its fields *)

\* the records a value resolved to is made of: itself, or its elements
RecordsOf(v) ==
  IF v.t = "arr" THEN {v.a[i] : i \in 1..Len(v.a)} ELSE {v}

\* C21: every top-level field of a record resolved by a data-returning call
\* is held under its camelCase name: a body carrying group_id resolves to a
\* record with that value under groupId.
C21_DomainShape ==
  \A c \in 1..Len(calls) :
    (Succeeded(c, "data") /\ calls[c].tv.data.t = "obj")
    => /\ \A r \in RecordsOf(calls[c].result) :
            \A i \in 1..Len(r.m) : IsCamelKey(r.m[i].k)
       /\ HasKey(calls[c].tv.data.m, group_id)
            => /\ HasKey(calls[c].result.m, groupId)
               /\ Get(calls[c].result.m, groupId)
                    = Get(calls[c].tv.data.m, group_id)

---------------------------------------------------------------------------
(* C22: keys with an acronym *)

\* k is made of ASCII letters and has two uppercase letters in a row
IsAcronymKey(k) ==
  /\ \A i \in 1..Len(k) : k[i] \in AsciiLower \cup AsciiUpper
  /\ \E i \in 1..(Len(k) - 1) : k[i] \in AsciiUpper /\ k[i + 1] \in AsciiUpper

\* C22 as stated: for a key k with two or more consecutive uppercase letters,
\* camelCase(snakeCase({k: v})) does not have key k.
C22_AsStated ==
  (Chain("snakeCase", "camelCase") /\ Len(arg.m) = 1 /\ IsAcronymKey(arg.m[1].k))
  => ~HasKey(ret.m, arg.m[1].k)

\* C22 amended: for a key k of ASCII letters with two or more consecutive
\* uppercase letters, camelCase(snakeCase({k: v})) is {k: v}: every uppercase
\* letter gets its own "_" and is restored from it.
C22_AcronymRoundTrip ==
  (Chain("snakeCase", "camelCase") /\ Len(arg.m) = 1 /\ IsAcronymKey(arg.m[1].k))
  => ret.m = arg.m

\* the key aAB went out and came back
C22_Witness ==
  /\ Chain("snakeCase", "camelCase")
  /\ Len(arg.m) = 1
  /\ arg.m[1].k = <<"a", "A", "B">>
  /\ ret.m = arg.m

---------------------------------------------------------------------------
(* C23, C24: the body handed to the transport *)

\* the keys of m bound to a value (a property bound to undefined is left out
\* of the JSON text)
PresentKeys(m) == {m[i].k : i \in {j \in 1..Len(m) : m[j].v # Undefined}}

\* C23: the body each body-carrying wrapper hands to the transport is the
\* mapping snakeCase(isoStringifyDates(payload)) itself, not wrapped in
\* another object: its top-level keys are exactly the snake_case forms of the
\* caller's parameter keys (with id, for templates.use) and no top-level value
\* is a Date.
C23_BodyShape ==
  (Len(ops) = 1 /\ arg.t = "obj")
  => /\ ret.t = "obj"
     /\ PresentKeys(ret.m) =
          {snakeKey(k) : k \in PresentKeys(arg.m)}
            \cup (IF ops[1] = "templates.use" THEN {id} ELSE {})
     /\ \A i \in 1..Len(ret.m) : ret.m[i].v.t # "date"

\* C24: envelopes.create takes each document's base as a Buffer or as a
\* base64 string, and in both cases sends base64 text for that document,
\* never the bytes.
C24_EnvelopeBase ==
  (ops = <<"envelopes.create">> /\ HasKey(arg.m, documents))
  => LET posted == Get(ret.m, documents)
         given == Get(arg.m, documents)
     IN  /\ posted.t = "arr"
         /\ Len(posted.a) = Len(given.a)
         /\ \A i \in 1..Len(given.a) :
              /\ Get(posted.a[i].m, base).t = "str"
              /\ SentAs(Get(given.a[i].m, base), Get(posted.a[i].m, base))

---------------------------------------------------------------------------
(* C25: the expiration of a recipient token *)

\* C25: recipients.retrieveToken resolves, for every successful response body
\* carrying an ISO string in expiration, to a record whose expiration is a
\* Date, as its result type RecipientToken declares.
C25_TokenExpiration ==
  \A c \in 1..Len(calls) :
    (/\ Succeeded(c, "data")
     /\ calls[c].tv.data.t = "obj"
     /\ IsoShaped(Get(calls[c].tv.data.m, expiration)))
    => /\ calls[c].state = "SUCCESS"
       /\ Get(calls[c].result.m, expiration).t = "date"

---------------------------------------------------------------------------
(* C26: one failure, two handlers *)

\* C26: for every failure f, a data-returning call and a dataless call whose
\* requests fail with f reject with the same outcome: an Error with the same
\* message when f carries one, the failure itself otherwise.
C26_UniformFailure ==
  \A c, d \in 1..Len(calls) :
    (/\ Failed(c) /\ Failed(d)
     /\ calls[c].shape = "data" /\ calls[d].shape = "dataless"
     /\ Anon(calls[c].tv) = Anon(calls[d].tv))
    => /\ calls[c].state = "FAILURE" /\ calls[d].state = "FAILURE"
       /\ Anon(calls[c].result) = Anon(calls[d].result)
       /\ (calls[c].result = calls[c].tv) <=> (calls[d].result = calls[d].tv)

\* a data-returning and a dataless call both failed with the body
\* {message: 404} and both rejected with an Error saying "404"
C26_Witness ==
  \E c, d \in 1..Len(calls) :
    /\ Failed(c) /\ Failed(d)
    /\ calls[c].shape = "data" /\ calls[d].shape = "dataless"
    /\ HasMessageField(calls[c].tv) /\ MessageField(calls[c].tv) = Num(404)
    /\ Anon(calls[c].tv) = Anon(calls[d].tv)
    /\ calls[c].result.t = "error" /\ calls[c].result.message = <<"4", "0", "4">>
    /\ calls[c].result.name = "Error" /\ calls[d].result.name = "Error"
    /\ Anon(calls[c].result) = Anon(calls[d].result)

---------------------------------------------------------------------------
(* C27: settling follows the transport *)

\* a settled call's request has ended
C27_NotBefore ==
  \A c \in 1..Len(calls) : Settled(c) => calls[c].tx # "pending"

\* a call whose request has ended does settle: an ended request stays ended
\* and a settled call stays settled, so every call whose request ends is
\* settled from some point on
C27_Eventually ==
  <>[](\A c \in 1..Len(calls) : calls[c].tx # "pending" => Settled(c))

\* a call leaves PENDING only in a step taken when its request has ended, so
\* it stays PENDING for as long as the request has not
C27_NoTimeout ==
  [][\A c \in 1..Len(calls) :
       (calls[c].state = "PENDING" /\ calls'[c].state # "PENDING")
       => calls[c].tx # "pending"]_vars

\* C27: a resolver call never reaches SUCCESS or FAILURE before its request
\* has settled; if the request settles the call eventually reaches a terminal
\* state; if the request never settles the call stays PENDING forever.
C27_SettleFollowsTransport ==
  []C27_NotBefore /\ C27_NoTimeout /\ C27_Eventually

\* one call has settled after its request ended while the other, issued
\* before it, is PENDING on a request that has not ended
C27_Witness ==
  /\ Len(calls) = 2
  /\ calls[1].tx = "pending" /\ calls[1].state = "PENDING"
  /\ calls[2].tx = "rejected" /\ calls[2].state = "FAILURE"

---------------------------------------------------------------------------
(* C28: which failures become an Error *)

\* the values JavaScript takes for false among those a message can be
FalsyValues == {Undefined, Null, Str(<<>>), Num(0)}

\* the value at response.data.message of a failure, undefined where the
\* failure has no such place
MessageOf(f) == IF HasMessageField(f) THEN MessageField(f) ELSE Undefined

\* the call rejected with an Error object made by its handler
RejectedWithNewError(c) ==
  /\ calls[c].state = "FAILURE"
  /\ calls[c].result.t = "error"
  /\ calls[c].result.name = "Error"
  /\ calls[c].result.ref = Ref(c, "Error")
  /\ calls[c].result.ref \notin TransportRefs

\* C28: a failed call rejects with a new Error if and only if the value at
\* response.data.message of its failure is truthy; otherwise, and so when the
\* message is the empty string, it rejects with the failure it received.
C28_Truthiness ==
  \A c \in 1..Len(calls) :
    Failed(c)
    => /\ RejectedWithNewError(c) <=> MessageOf(calls[c].tv) \notin FalsyValues
       /\ MessageOf(calls[c].tv) \in FalsyValues
            => (calls[c].state = "FAILURE" /\ calls[c].result = calls[c].tv)

\* a failure with message "" was re-thrown as received, and one with the
\* numeric message 404 became an Error
C28_Witness ==
  \E c, d \in 1..Len(calls) :
    /\ Failed(c) /\ Failed(d)
    /\ MessageOf(calls[c].tv) = Str(<<>>)
    /\ calls[c].result = calls[c].tv
    /\ MessageOf(calls[d].tv) = Num(404)
    /\ RejectedWithNewError(d)

---------------------------------------------------------------------------
(* accounts.list(params): the query is built, then the request is issued   *)
(* and its promise handed to handleDataResponse.  arg is the params of the *)
(* last call of accounts.list, ret the query it built or the exception it  *)
(* threw.                                                                  *)

\* params of accounts.list: none, or createdBefore as a Date or a string
ListParams ==
  {Undefined,
   Obj(<<[k |-> createdBefore, v |-> MakeDate(19793, 8130500)]>>),
   Obj(<<[k |-> createdBefore, v |-> Str(isoSample)]>>),
   Obj(<<[k |-> createdBefore, v |-> InvalidDate]>>),
   Obj(<<[k |-> groupId, v |-> Num(1)], [k |-> createdBefore, v |-> InvalidDate]>>)}

\* variant: the query is built in the promise chain, so that an exception
\* becomes the rejection of the promise the handler awaits
AccountsListDeferred(p) ==
  /\ Len(ops) < MaxOps
  /\ Len(calls) < MaxCalls
  /\ LET query == WirePayload(IF Truthy(p) THEN p.m ELSE <<>>)
     IN  /\ ret' = query
         /\ calls' = Append(calls,
              [shape |-> "data", state |-> "PENDING",
               tx |-> IF query.t = "throw" THEN "rejected" ELSE "pending",
               tv |-> IF query.t = "throw" THEN Str(<<"R">>) ELSE Undefined,
               result |-> Undefined, issued |-> 1, awaits |-> 1])
  /\ arg' = p
  /\ ops' = Append(ops, "accounts.list")
  /\ UNCHANGED heap

\* accounts.list(params): snakeCase(isoStringifyDates(params)) is evaluated
\* first, as an argument of client.get; an exception it throws leaves
\* accounts.list before client.get and handleDataResponse are called
AccountsList(p) ==
  /\ Len(ops) < MaxOps
  /\ Len(calls) < MaxCalls
  /\ LET dated == isoStringifyDates(p)
     IN  IF dated.t = "throw"
         THEN /\ ret' = dated
              /\ calls' = calls
         ELSE /\ ret' = Obj(<<[k |-> params, v |-> Obj(snakeCase(dated))]>>)
              /\ calls' = Append(calls,
                   [shape |-> "data", state |-> "PENDING", tx |-> "pending",
                    tv |-> Undefined, result |-> Undefined,
                    issued |-> 1, awaits |-> 1])
  /\ arg' = p
  /\ ops' = Append(ops, "accounts.list")
  /\ UNCHANGED heap

NextRequest ==
  \/ \E p \in ListParams : AccountsList(p)
  \/ \E c \in 1..Len(calls) : \E body \in Bodies : TransportFulfil(c, body)
  \/ \E c \in 1..Len(calls) : \E f \in Failures(Ref(c, "transport")) :
       TransportReject(c, f)
  \/ \E c \in 1..Len(calls) : Resume(c)

\* calls of accounts.list, from building the query to settling
SpecRequest == InitResolver /\ [][NextRequest]_vars

---------------------------------------------------------------------------
(* C29: an invalid Date among the request parameters *)

HasInvalidDate(p) ==
  p.t = "obj" /\ \E i \in 1..Len(p.m) : p.m[i].v.t = "date" /\ ~p.m[i].v.valid

\* C29: an invalid Date in a top-level parameter makes isoStringifyDates
\* throw while the request is built: accounts.list fails synchronously with
\* that exception, no request is issued, no call enters PENDING and no
\* handler classifies the failure.
C29_SynchronousFailure ==
  [][(ops' # ops /\ HasInvalidDate(arg'))
     => /\ ret' = RangeError
        /\ calls' = calls]_vars

\* accounts.list({createdBefore: <invalid Date>}) threw RangeError and there
\* is no call
C29_Witness ==
  /\ ops = <<"accounts.list">>
  /\ arg = Obj(<<[k |-> createdBefore, v |-> InvalidDate]>>)
  /\ ret = RangeError
  /\ calls = <<>>

---------------------------------------------------------------------------
(* C30: keys that are renamed to one key *)

\* function f renames key k to w
Renames(f, k, w) == IF f = "snakeCase" THEN SnakeRule(k, w) ELSE CamelRule(k, w)

IsLetters(k) == \A i \in 1..Len(k) : k[i] \in AsciiLower \cup AsciiUpper

\* C30: when snakeCase or camelCase renames two distinct input keys to the
\* same key, the output holds that key once, bound to the value of the input
\* key enumerated last, and has fewer keys than the input; when all input
\* keys are made of ASCII letters only, snakeCase renames them to distinct
\* keys and the output has exactly as many keys as the input.
C30_Collisions ==
  \A f \in {"snakeCase", "camelCase"} :
    Only(f) =>
      /\ DistinctKeys(ret.m)
      /\ \A i, j \in 1..Len(arg.m) : \A n \in 1..Len(ret.m) :
           (/\ i < j
            /\ Renames(f, arg.m[i].k, ret.m[n].k)
            /\ Renames(f, arg.m[j].k, ret.m[n].k)
            /\ \A l \in (j + 1)..Len(arg.m) : ~Renames(f, arg.m[l].k, ret.m[n].k))
           => /\ ret.m[n].v = arg.m[j].v
              /\ Len(ret.m) < Len(arg.m)
      /\ (\E i, j \in 1..Len(arg.m) :
            i < j /\ \E w \in KeySet(ret.m) :
              Renames(f, arg.m[i].k, w) /\ Renames(f, arg.m[j].k, w))
         <=> Len(ret.m) < Len(arg.m)
      /\ (f = "snakeCase" /\ \A i \in 1..Len(arg.m) : IsLetters(arg.m[i].k))
         => Len(ret.m) = Len(arg.m)

\* groupId and group_id, enumerated in this order, were both renamed to
\* group_id by snakeCase, which returned one key with the value of the second
C30_Witness ==
  /\ Only("snakeCase")
  /\ Len(arg.m) = 2
  /\ arg.m[1].k = groupId /\ arg.m[2].k = group_id
  /\ ret.m = <<[k |-> group_id, v |-> arg.m[2].v]>>

===========================================================================
